---- MODULE Spec2Model ----
(***************************************************************************)
(* Model of rest-songs: the songs table behind Repo                        *)
(* (internal/app/repository/postgresql/repo.go), the SongService on top of *)
(* it (internal/app/api/service.go) and the requests that reach them.      *)
(*                                                                         *)
(* Instants are integers: 0 is Go's zero time.Time (0001-01-01, the value  *)
(* of an unset field, for which IsZero() is true), the database clock      *)
(* NOW() starts at 1 and never runs backwards.  A text is a sequence of    *)
(* characters over {"a", NL}.  Arithmetic on page and pageSize is over     *)
(* values far below the width of Go's int, so it never wraps.  A statement  *)
(* sent to the database is one atomic step, the database answers every     *)
(* statement, and a request is one step: it issues at most one statement.  *)
(* Where two requests are handled at once (SpecConc) a request is several  *)
(* steps: its arrival, the return of its detail fetch, its statement.      *)
(* The texts of a request are sequences of characters where they are read  *)
(* as numbers; a date text is given by whether it is empty, whether it has *)
(* the layout DD.MM.YYYY, and the day it then names.                       *)
(* The router (SpecRouter) is gorilla/mux as main sets it up: a path is    *)
(* one of the registered patterns or none of them, and the middleware of   *)
(* Use runs for a request only when a route matched it.                    *)
(***************************************************************************)
EXTENDS Integers, Sequences, FiniteSets, TLC

VARIABLES
    songs,      \* the rows of table songs
    idSeq,      \* last value handed out by the SERIAL sequence of songs.id
    now,        \* the latest value NOW() has returned
    resp,       \* outcome of the request handled last
    deleted,    \* history: ids whose DELETE affected a row
    issued,     \* history: ids returned by INSERT, in order
    listLog,    \* history: pages of the unfiltered list read so far
    req,        \* the HTTP request handled last, as it arrived
    flight,     \* the requests being handled concurrently
    edge        \* the verb and path routed last, the headers set on the answer

vars == <<songs, idSeq, now, resp, deleted, issued, listLog, req, flight, edge>>

----------------------------------------------------------------------------
(* Bounds of the model *)

MaxLen == 4         \* longest text drawn for verse pagination
MaxPage == 3        \* largest page
MaxPageSize == 3    \* largest pageSize
MaxNeg == 1         \* page and pageSize go down to -MaxNeg
MaxId == 2          \* INSERTs in one run of the lifecycle
MaxTime == 2        \* last instant of the database clock
MaxDate == 1        \* release dates are 0..MaxDate
MaxRows == 3        \* rows of a drawn table

NL == "\n"
Chars == {"a", NL}

Pages == (0 - MaxNeg)..MaxPage
PageSizes == (0 - MaxNeg)..MaxPageSize
Dates == 0..MaxDate
Groups == {"g1", "g2"}
Titles == {"t1", "t2"}

RECURSIVE TextsOfLen(_)
TextsOfLen(n) ==
    IF n = 0 THEN {<<>>}
    ELSE {Append(t, c) : t \in TextsOfLen(n - 1), c \in Chars}

AllTexts == UNION {TextsOfLen(n) : n \in 0..MaxLen}

Min(a, b) == IF a < b THEN a ELSE b

----------------------------------------------------------------------------
(* Values *)

ErrSongNotFound == "ErrSongNotFound"
ErrPageOutOfBounds == "ErrPageOutOfBounds"
ErrDatabase == "ErrDatabase"
Panic == "panic"
Ok == "ok"
ErrBadID == "ErrBadID"              \* "Неправильный формат ID"
ErrBadBody == "ErrBadBody"          \* "Неправильный формат данных"
ErrBadDate == "ErrBadDate"          \* "Неправильный формат даты"
ErrDateParse == "ErrDateParse"      \* time.Parse failed in CreateSong
ErrDetailFetch == "ErrDetailFetch"  \* the detail provider gave no SongDetail

\* models.Song{}
ZeroSong ==
    [ID |-> 0, Group |-> "", Title |-> "", ReleaseDate |-> 0, Text |-> <<>>,
     Link |-> "", CreatedAt |-> 0, UpdatedAt |-> 0]

\* models.SongFilters{}
NoFilter == [Group |-> "", Title |-> "", ReleaseDate |-> 0]

\* no HTTP request has arrived
NoReq == [method |-> "none"]

\* no request is being handled
NoFlight == <<>>

\* no request has been routed
NoEdge == [verb |-> "none", path |-> "none", headers |-> {}]

NoResp ==
    [op |-> "none", id |-> 0, page |-> 0, pageSize |-> 0, filter |-> NoFilter,
     err |-> Ok, status |-> 0, song |-> ZeroSong, rows |-> <<>>, verses |-> <<>>]

----------------------------------------------------------------------------
(* strings.Split(song.Text, "\n\n") *)

\* strings.Index(s, "\n\n"), 1-based; 0 when the separator does not occur
IndexSep(s) ==
    LET hits == {i \in 1..(Len(s) - 1) : s[i] = NL /\ s[i + 1] = NL}
    IN IF hits = {} THEN 0 ELSE CHOOSE i \in hits : \A j \in hits : i <= j

(* faulty variant: the empty text, and an empty rest, give no verse *)
RECURSIVE SplitEmptyToNone(_)
SplitEmptyToNone(s) ==
    LET m == IndexSep(s)
    IN IF s = <<>> THEN <<>>
       ELSE IF m = 0 THEN <<s>>
       ELSE <<SubSeq(s, 1, m - 1)>> \o SplitEmptyToNone(SubSeq(s, m + 2, Len(s)))

RECURSIVE Split(_)
Split(s) ==
    LET m == IndexSep(s)
    IN IF m = 0 THEN <<s>>
       ELSE <<SubSeq(s, 1, m - 1)>> \o Split(SubSeq(s, m + 2, Len(s)))

----------------------------------------------------------------------------
(* Repo *)

(* faulty variant: a missing row is answered with the zero row and no error *)
GetByIdZeroRow(id) ==
    LET found == {s \in songs : s.ID = id}
    IN [err |-> Ok, song |-> IF found = {} THEN ZeroSong
                             ELSE CHOOSE s \in found : TRUE]

\* SELECT ... FROM songs WHERE id = $1, pgx.ErrNoRows mapped to ErrSongNotFound
GetById(id) ==
    LET found == {s \in songs : s.ID = id}
    IN IF found = {} THEN [err |-> ErrSongNotFound, song |-> ZeroSong]
       ELSE [err |-> Ok, song |-> CHOOSE s \in found : TRUE]

\* WHERE 1=1 plus one "AND column = $n" for each filter field that is set
(* faulty variant: the release date is compared also when the filter has none *)
WhereDateAlways(filter, s) ==
    /\ (filter.Group # "" => s.Group = filter.Group)
    /\ (filter.Title # "" => s.Title = filter.Title)
    /\ s.ReleaseDate = filter.ReleaseDate

Where(filter, s) ==
    /\ (filter.Group # "" => s.Group = filter.Group)
    /\ (filter.Title # "" => s.Title = filter.Title)
    /\ (filter.ReleaseDate # 0 => s.ReleaseDate = filter.ReleaseDate)

\* the sequences without repetition of all elements of S
RECURSIVE SeqsOf(_)
SeqsOf(S) ==
    IF S = {} THEN {<<>>}
    ELSE UNION {{<<x>> \o q : q \in SeqsOf(S \ {x})} : x \in S}

\* ORDER BY release_date DESC: every order of the rows the key allows; rows
\* with equal release_date come in an order the database picks per query
OrderBy(S) ==
    {q \in SeqsOf(S) :
        \A i, j \in 1..Len(q) : i < j => q[i].ReleaseDate >= q[j].ReleaseDate}

\* LIMIT $n OFFSET $m applied to an ordered result
LimitOffset(q, limit, offset) == SubSeq(q, offset + 1, Min(offset + limit, Len(q)))

\* Repo.GetWithFilter: the outcomes the query can have.  PostgreSQL rejects a
\* negative LIMIT or OFFSET; the error is returned with a nil slice.
GetWithFilter(filter, page, pageSize) ==
    LET offset == (page - 1) * pageSize
    IN IF pageSize < 0 \/ offset < 0
       THEN {[err |-> ErrDatabase, rows |-> <<>>]}
       ELSE {[err |-> Ok, rows |-> LimitOffset(q, pageSize, offset)] :
                q \in OrderBy({s \in songs : Where(filter, s)})}

\* the value the SERIAL column takes on INSERT: nextval of its sequence
(* faulty variant: one more than the largest id in the table *)
NextIdAfterMax ==
    IF songs = {} THEN 1
    ELSE 1 + (CHOOSE m \in {s.ID : s \in songs} : \A s \in songs : s.ID <= m)

NextId == idSeq + 1

(* faulty variant: a song whose group and title are stored gets the stored id *)
InsertedReusesIdOfSameSong(song, id, t) ==
    LET same == {s \in songs : s.Group = song.Group /\ s.Title = song.Title}
    IN [song EXCEPT !.ID = IF same = {} THEN id ELSE (CHOOSE s \in same : TRUE).ID,
                    !.CreatedAt = t, !.UpdatedAt = t]

(* faulty variant: the link column is left out of the INSERT *)
InsertedWithoutLink(song, id, t) ==
    [song EXCEPT !.ID = id, !.Link = "", !.CreatedAt = t, !.UpdatedAt = t]

\* INSERT INTO songs (...) VALUES ($1..$5, NOW(), NOW()) RETURNING id, created_at, updated_at
Inserted(song, id, t) ==
    [song EXCEPT !.ID = id, !.CreatedAt = t, !.UpdatedAt = t]

\* UPDATE songs SET "group" = $1, song = $2, release_date = $3, text = $4,
\* link = $5, updated_at = NOW() WHERE id = $6 RETURNING ...
(* faulty variant: updated_at written from the song passed in *)
UpdatedKeepsInputStamp(old, song, t) ==
    [old EXCEPT !.Group = song.Group, !.Title = song.Title,
                !.ReleaseDate = song.ReleaseDate, !.Text = song.Text,
                !.Link = song.Link, !.UpdatedAt = song.UpdatedAt]

(* faulty variant: the link column is left out of the UPDATE *)
UpdatedKeepsLink(old, song, t) ==
    [old EXCEPT !.Group = song.Group, !.Title = song.Title,
                !.ReleaseDate = song.ReleaseDate, !.Text = song.Text,
                !.UpdatedAt = t]

(* faulty variant: created_at refreshed as well *)
UpdatedRefreshesCreatedAt(old, song, t) ==
    [old EXCEPT !.Group = song.Group, !.Title = song.Title,
                !.ReleaseDate = song.ReleaseDate, !.Text = song.Text,
                !.Link = song.Link, !.CreatedAt = t, !.UpdatedAt = t]

Updated(old, song, t) ==
    [old EXCEPT !.Group = song.Group, !.Title = song.Title,
                !.ReleaseDate = song.ReleaseDate, !.Text = song.Text,
                !.Link = song.Link, !.UpdatedAt = t]

\* DELETE FROM songs WHERE id = $1: the rows left in the table
(* faulty variant: the rows of the smaller ids are removed as well *)
DeleteWhereUpTo(id) == {s \in songs : s.ID > id}

(* faulty variant: no row is removed *)
DeleteKeepsRows(id) == songs

DeleteWhere(id) == {s \in songs : s.ID # id}

\* result.RowsAffected() of that DELETE
(* faulty variant: the rows of the whole table are counted *)
RowsAffectedOfTable(id) == Cardinality(songs)

RowsAffected(id) == Cardinality({s \in songs : s.ID = id})

\* the instants NOW() can return in the next statement
Clock == now..Min(now + 1, MaxTime)

----------------------------------------------------------------------------
(* SongService *)

(* faulty variant: the verse at end is taken too, when there is one *)
SliceThroughEnd(verses, start, end) ==
    IF start < 0 \/ end < start \/ end > Len(verses)
    THEN [err |-> Panic, verses |-> <<>>]
    ELSE [err |-> Ok, verses |-> SubSeq(verses, start + 1, Min(end + 1, Len(verses)))]

\* verses[start:end]; Go panics unless 0 <= start <= end <= len(verses)
Slice(verses, start, end) ==
    IF start < 0 \/ end < start \/ end > Len(verses)
    THEN [err |-> Panic, verses |-> <<>>]
    ELSE [err |-> Ok, verses |-> SubSeq(verses, start + 1, end)]

\* start := (page - 1) * pageSize
(* faulty variant: pages counted from 0 *)
PageStartFromZero(page, pageSize) == page * pageSize

PageStart(page, pageSize) == (page - 1) * pageSize

\* if start > len(verses) { return nil, ErrPageOutOfBounds }
(* faulty variant: the page that starts right at the end is rejected too *)
PastEndOrAtEnd(start, n) == start >= n

PastEnd(start, n) == start > n

\* if end > len(verses) { end = len(verses) }
(* faulty variant: the clamp falls one short *)
ClampEndShort(end, n) == IF end >= n THEN n - 1 ELSE end

ClampEnd(end, n) == IF end > n THEN n ELSE end

(* faulty variant: the page is tested before the error of the lookup *)
GetSongTextResultPageFirst(id, page, pageSize) ==
    LET got == GetById(id)
        verses == Split(got.song.Text)
        start == PageStart(page, pageSize)
        end == start + pageSize
    IN IF PastEnd(start, Len(verses))
       THEN [err |-> ErrPageOutOfBounds, verses |-> <<>>]
       ELSE IF got.err # Ok THEN [err |-> got.err, verses |-> <<>>]
       ELSE Slice(verses, start, ClampEnd(end, Len(verses)))

\* SongService.GetSongText: what it returns
GetSongTextResult(id, page, pageSize) ==
    LET got == GetById(id)
        verses == Split(got.song.Text)
        start == PageStart(page, pageSize)
        end == start + pageSize
    IN IF got.err # Ok THEN [err |-> got.err, verses |-> <<>>]
       ELSE IF PastEnd(start, Len(verses))
       THEN [err |-> ErrPageOutOfBounds, verses |-> <<>>]
       ELSE Slice(verses, start, ClampEnd(end, Len(verses)))

(* faulty variant: a text that is not in the layout parses to the zero date *)
ParseDateLenient(s) == [err |-> Ok, date |-> IF s.layout THEN s.day ELSE 0]

\* time.Parse("02.01.2006", s).  A date text is modelled by whether it has the
\* layout DD.MM.YYYY and by the day it then denotes.
ParseDate(s) ==
    IF s.layout THEN [err |-> Ok, date |-> s.day]
    ELSE [err |-> ErrDateParse, date |-> 0]

----------------------------------------------------------------------------
(* Requests.  Each one sets resp to its own outcome. *)

\* the status each handler answers with: its success status when err is nil,
\* 404 for ErrSongNotFound and 400 for ErrPageOutOfBounds where the handler
\* tests for them, 500 for any other error.  A panic is recovered by net/http,
\* which drops the connection: no status (0).
StatusOK == 200
StatusCreated == 201
StatusNoContent == 204
StatusBadRequest == 400
StatusNotFound == 404
StatusInternalServerError == 500

(* faulty variant: every success is answered 200 *)
StatusOKOnEverySuccess(op, err) ==
    IF err = Panic THEN 0
    ELSE IF err = Ok THEN StatusOK
    ELSE IF err = ErrSongNotFound /\ op \in {"text", "update", "delete"}
    THEN StatusNotFound
    ELSE IF err = ErrPageOutOfBounds /\ op = "text" THEN StatusBadRequest
    ELSE IF err \in {ErrBadID, ErrBadBody, ErrBadDate} THEN StatusBadRequest
    ELSE StatusInternalServerError

\* 400 also for a text the handler itself cannot read
Status(op, err) ==
    IF err = Panic THEN 0
    ELSE IF err = Ok
    THEN (IF op = "create" THEN StatusCreated
          ELSE IF op = "delete" THEN StatusNoContent ELSE StatusOK)
    ELSE IF err = ErrSongNotFound /\ op \in {"text", "update", "delete"}
    THEN StatusNotFound
    ELSE IF err = ErrPageOutOfBounds /\ op = "text" THEN StatusBadRequest
    ELSE IF err \in {ErrBadID, ErrBadBody, ErrBadDate} THEN StatusBadRequest
    ELSE StatusInternalServerError

Reply(op, id, page, pageSize, filter, err, song, rows, verses) ==
    [op |-> op, id |-> id, page |-> page, pageSize |-> pageSize,
     filter |-> filter, err |-> err, status |-> Status(op, err), song |-> song,
     rows |-> rows, verses |-> verses]

\* SongService.GetSongsWithFilter -> Repo.GetWithFilter
GetSongsWithFilter(filter, page, pageSize) ==
    /\ \E r \in GetWithFilter(filter, page, pageSize) :
          resp' = Reply("list", 0, page, pageSize, filter, r.err, ZeroSong,
                        r.rows, <<>>)
    /\ UNCHANGED <<songs, idSeq, now, deleted, issued>>

(* faulty variant: the read stamps the song it read *)
GetSongTextStampsSong(id, page, pageSize) ==
    /\ LET r == GetSongTextResult(id, page, pageSize)
       IN resp' = Reply("text", id, page, pageSize, NoFilter, r.err, ZeroSong,
                        <<>>, r.verses)
    /\ \E t \in Clock :
          /\ songs' = {IF s.ID = id THEN [s EXCEPT !.UpdatedAt = t] ELSE s : s \in songs}
          /\ now' = t
    /\ UNCHANGED <<idSeq, deleted, issued>>

\* SongService.GetSongText
GetSongText(id, page, pageSize) ==
    /\ LET r == GetSongTextResult(id, page, pageSize)
       IN resp' = Reply("text", id, page, pageSize, NoFilter, r.err, ZeroSong,
                        <<>>, r.verses)
    /\ UNCHANGED <<songs, idSeq, now, deleted, issued>>

\* SongService.UpdateSongById -> Repo.Update
UpdateSongById(id, song) ==
    LET got == GetById(id)
    IN IF got.err # Ok
       THEN /\ resp' = Reply("update", id, 0, 0, NoFilter, ErrSongNotFound,
                             ZeroSong, <<>>, <<>>)
            /\ UNCHANGED <<songs, idSeq, now, deleted, issued>>
       ELSE \E t \in Clock :
               LET row == Updated(got.song, song, t)
               IN /\ songs' = (songs \ {got.song}) \cup {row}
                  /\ now' = t
                  /\ resp' = Reply("update", id, 0, 0, NoFilter, Ok, row,
                                   <<>>, <<>>)
                  /\ UNCHANGED <<idSeq, deleted, issued>>

\* SongService.DeleteSongById -> Repo.Delete
DeleteSongById(id) ==
    IF RowsAffected(id) = 0
    THEN /\ resp' = Reply("delete", id, 0, 0, NoFilter, ErrSongNotFound,
                          ZeroSong, <<>>, <<>>)
         /\ UNCHANGED <<songs, idSeq, now, deleted, issued>>
    ELSE /\ songs' = DeleteWhere(id)
         /\ deleted' = deleted \cup {id}
         /\ resp' = Reply("delete", id, 0, 0, NoFilter, Ok, ZeroSong, <<>>, <<>>)
         /\ UNCHANGED <<idSeq, now, issued>>

\* SongService.CreateSong -> Repo.Create
CreateSong(group, title, songDetails) ==
    LET parsed == ParseDate(songDetails.ReleaseDate)
        newSong == [ZeroSong EXCEPT !.Group = group, !.Title = title,
                                    !.ReleaseDate = parsed.date,
                                    !.Text = songDetails.Text,
                                    !.Link = songDetails.Link]
    IN IF parsed.err # Ok
       THEN /\ resp' = Reply("create", 0, 0, 0, NoFilter, parsed.err, ZeroSong,
                             <<>>, <<>>)
            /\ UNCHANGED <<songs, idSeq, now, deleted, issued>>
       ELSE /\ idSeq < MaxId
            /\ \E t \in Clock :
                  LET row == Inserted(newSong, NextId, t)
                  IN /\ songs' = songs \cup {row}
                     /\ idSeq' = idSeq + 1
                     /\ now' = t
                     /\ issued' = Append(issued, row.ID)
                     /\ resp' = Reply("create", 0, 0, 0, NoFilter, Ok, row,
                                      <<>>, <<>>)
                     /\ UNCHANGED deleted

----------------------------------------------------------------------------
(* The HTTP edge.  A handler reads the texts of the request, answers a     *)
(* text it cannot read itself, and otherwise calls the service.  req keeps *)
(* the request as it arrived.                                              *)

\* the value of each decimal digit
Digit ==
    [c \in {"0", "1", "2", "3", "4", "5", "6", "7", "8", "9"} |->
        CASE c = "0" -> 0 [] c = "1" -> 1 [] c = "2" -> 2 [] c = "3" -> 3
          [] c = "4" -> 4 [] c = "5" -> 5 [] c = "6" -> 6 [] c = "7" -> 7
          [] c = "8" -> 8 [] c = "9" -> 9]

RECURSIVE DecimalValue(_)
DecimalValue(ds) ==
    IF ds = <<>> THEN 0
    ELSE DecimalValue(SubSeq(ds, 1, Len(ds) - 1)) * 10 + Digit[ds[Len(ds)]]

(* faulty variant: the digits at the front are read and the rest is skipped *)
AtoiPrefix(s) ==
    LET signed == s # <<>> /\ s[1] \in {"+", "-"}
        ds == IF signed THEN Tail(s) ELSE s
        n == Cardinality({i \in 1..Len(ds) :
                             \A j \in 1..i : ds[j] \in DOMAIN Digit})
        v == DecimalValue(SubSeq(ds, 1, n))
    IN [err |-> FALSE, val |-> IF signed /\ s[1] = "-" THEN 0 - v ELSE v]

\* strconv.Atoi: an optional sign, then one or more decimal digits and
\* nothing else; the value is 0 when the text is not such a number
Atoi(s) ==
    LET signed == s # <<>> /\ s[1] \in {"+", "-"}
        ds == IF signed THEN Tail(s) ELSE s
    IN IF ds = <<>> \/ (\E i \in 1..Len(ds) : ds[i] \notin DOMAIN Digit)
       THEN [err |-> TRUE, val |-> 0]
       ELSE [err |-> FALSE,
             val |-> IF s[1] = "-" THEN 0 - DecimalValue(ds) ELSE DecimalValue(ds)]

DefaultPage == 1
DefaultPageSize == 10

(* faulty variant: the value Atoi left is used when the text is not a number *)
ParamOrAtoiValue(text, default) == Atoi(text).val

\* page, err := strconv.Atoi(pageStr); if err != nil { page = default }
ParamOr(text, default) ==
    IF Atoi(text).err THEN default ELSE Atoi(text).val

\* the text of a field the JSON document does not have, and of a query
\* parameter the URL does not have: the empty string
EmptyDateText == [layout |-> FALSE, day |-> 0, empty |-> TRUE]
EmptyText == <<>>

ZeroDetail == [ReleaseDate |-> EmptyDateText, Text |-> EmptyText, Link |-> ""]

\* json.NewDecoder(resp.Body).Decode(&songDetails): a field the document has
\* is stored, a field it lacks keeps its zero value, a field the struct does
\* not have is skipped
DecodeSongDetail(fetched) ==
    [ReleaseDate |-> IF "releaseDate" \in fetched.has THEN fetched.releaseDate
                     ELSE ZeroDetail.ReleaseDate,
     Text |-> IF "text" \in fetched.has THEN fetched.text ELSE ZeroDetail.Text,
     Link |-> IF "link" \in fetched.has THEN fetched.link ELSE ZeroDetail.Link]

\* http.Get of the detail provider, the test of its status, the decoding of
\* its body
FetchSongDetail(fetched) ==
    IF fetched.kind # "ok" THEN [err |-> ErrDetailFetch, detail |-> ZeroDetail]
    ELSE [err |-> Ok, detail |-> DecodeSongDetail(fetched)]

\* a handler answers by itself, without calling the service
Refuse(op, err) ==
    /\ resp' = Reply(op, 0, 0, 0, NoFilter, err, ZeroSong, <<>>, <<>>)
    /\ UNCHANGED <<songs, idSeq, now, deleted, issued>>

\* GET /songs
GetSongsHandler(group, title, releaseDateStr, pageStr, pageSizeStr) ==
    /\ req' = [method |-> "list", group |-> group, song |-> title,
               release_date |-> releaseDateStr, page |-> pageStr,
               page_size |-> pageSizeStr]
    /\ LET parsed == IF releaseDateStr.empty THEN [err |-> Ok, date |-> 0]
                     ELSE ParseDate(releaseDateStr)
           filter == [Group |-> group, Title |-> title, ReleaseDate |-> parsed.date]
       IN IF parsed.err # Ok THEN Refuse("list", ErrBadDate)
          ELSE GetSongsWithFilter(filter, ParamOr(pageStr, DefaultPage),
                                  ParamOr(pageSizeStr, DefaultPageSize))

EmptyListMessage == "EmptyListMessage"  \* "Песня не найдена/Список песен пуст"

\* the body GetSongsHandler writes for the songs the service returned: the
\* JSON array of the songs, but a JSON string when there are none
ListBody(rows) ==
    IF Len(rows) = 0
    THEN [kind |-> "string", value |-> <<EmptyListMessage>>]
    ELSE [kind |-> "array", value |-> rows]

\* GET /songs/text/{id}
GetSongTextHandler(idStr, pageStr, pageSizeStr) ==
    /\ req' = [method |-> "text", id |-> idStr, page |-> pageStr,
               page_size |-> pageSizeStr]
    /\ IF Atoi(idStr).err THEN Refuse("text", ErrBadID)
       ELSE GetSongText(Atoi(idStr).val, ParamOr(pageStr, DefaultPage),
                        ParamOr(pageSizeStr, DefaultPageSize))

\* PUT /songs/{id}
UpdateSongByIdHandler(idStr, body) ==
    /\ req' = [method |-> "update", id |-> idStr, body |-> body]
    /\ IF Atoi(idStr).err THEN Refuse("update", ErrBadID)
       ELSE IF ~body.json THEN Refuse("update", ErrBadBody)
       ELSE IF ParseDate(body.release_date).err # Ok THEN Refuse("update", ErrBadDate)
       ELSE UpdateSongById(Atoi(idStr).val,
                [ZeroSong EXCEPT !.Group = body.group, !.Title = body.song,
                                 !.ReleaseDate = ParseDate(body.release_date).date,
                                 !.Text = body.text, !.Link = body.link])

\* DELETE /songs/{id}
DeleteSongByIdHandler(idStr) ==
    /\ req' = [method |-> "delete", id |-> idStr]
    /\ IF Atoi(idStr).err THEN Refuse("delete", ErrBadID)
       ELSE DeleteSongById(Atoi(idStr).val)

\* POST /songs
AddSongHandler(body, fetched) ==
    /\ req' = [method |-> "create", body |-> body, fetched |-> fetched]
    /\ IF ~body.json THEN Refuse("create", ErrBadBody)
       ELSE LET got == FetchSongDetail(fetched)
            IN IF got.err # Ok THEN Refuse("create", got.err)
               ELSE CreateSong(body.group, body.song, got.detail)

----------------------------------------------------------------------------
(* The router.  mux.Router matches the path and the verb of a request      *)
(* against the routes in the order of their registration.  The middleware  *)
(* given to Use wraps the handler of the route that matched: a request     *)
(* that matches no route is answered by the router itself, 405 when only   *)
(* the verb did not match and 404 otherwise, and passes no middleware.     *)

StatusMethodNotAllowed == 405
StatusRouteNotFound == 404

\* the routes of RegisterRoutes; the swagger route takes every verb
Routes ==
    <<[path |-> "/songs", verb |-> "GET", handler |-> "list"],
      [path |-> "/songs/text/{id}", verb |-> "GET", handler |-> "text"],
      [path |-> "/songs/{id}", verb |-> "PUT", handler |-> "update"],
      [path |-> "/songs/{id}", verb |-> "DELETE", handler |-> "delete"],
      [path |-> "/songs", verb |-> "POST", handler |-> "create"],
      [path |-> "/docs/swagger/", verb |-> "any", handler |-> "docs"]>>

\* Router.Match: the first route whose path and verb both match
Match(verb, path) ==
    LET onPath == {i \in DOMAIN Routes : Routes[i].path = path}
        full == {i \in onPath : Routes[i].verb \in {verb, "any"}}
    IN IF full # {} THEN Routes[CHOOSE i \in full : \A j \in full : i <= j].handler
       ELSE IF onPath # {} THEN "405"
       ELSE "404"

\* the headers enableCORS sets
CorsHeaders ==
    {<<"Access-Control-Allow-Origin", "*">>,
     <<"Access-Control-Allow-Methods", "GET, POST, PUT, DELETE, OPTIONS">>,
     <<"Access-Control-Allow-Headers", "Content-Type, Authorization">>}

\* an answer that no song handler wrote
Answer(op, status) ==
    /\ resp' = [NoResp EXCEPT !.op = op, !.status = status]
    /\ UNCHANGED <<songs, idSeq, now, deleted, issued, req>>

\* the handler of the route, with the texts the request carries
Dispatch(handler, idStr, pageStr, body, fetched) ==
    CASE handler = "list" ->
            GetSongsHandler("", "", EmptyDateText, pageStr, <<>>)
      [] handler = "text" -> GetSongTextHandler(idStr, pageStr, <<>>)
      [] handler = "update" -> UpdateSongByIdHandler(idStr, body)
      [] handler = "delete" -> DeleteSongByIdHandler(idStr)
      [] handler = "create" -> AddSongHandler(body, fetched)
      [] handler = "docs" -> Answer("docs", StatusOK)

\* enableCORS(next): the three headers, then 204 for OPTIONS, next otherwise
EnableCORS(verb, handler, idStr, pageStr, body, fetched) ==
    IF verb = "OPTIONS" THEN Answer("options", StatusNoContent)
    ELSE Dispatch(handler, idStr, pageStr, body, fetched)

\* Router.ServeHTTP with the middleware of r.Use(enableCORS)
ServeHTTP(verb, path, idStr, pageStr, body, fetched) ==
    LET handler == Match(verb, path)
    IN IF handler = "405"
       THEN /\ edge' = [verb |-> verb, path |-> path, headers |-> {}]
            /\ Answer("router", StatusMethodNotAllowed)
       ELSE IF handler = "404"
       THEN /\ edge' = [verb |-> verb, path |-> path, headers |-> {}]
            /\ Answer("router", StatusRouteNotFound)
       ELSE /\ edge' = [verb |-> verb, path |-> path, headers |-> CorsHeaders]
            /\ EnableCORS(verb, handler, idStr, pageStr, body, fetched)

----------------------------------------------------------------------------
(* Inputs *)

\* a date text in the layout DD.MM.YYYY for each day, and one that is not
DateTexts == [layout : {TRUE}, day : Dates] \cup {[layout |-> FALSE, day |-> 0]}

Filters == [Group : Groups \cup {""}, Title : Titles \cup {""}, ReleaseDate : Dates]

\* what the requests of the lifecycle carry: the rows differ in their group,
\* the reads ask for the first pages
LifeText == <<"a", NL, NL, "a">>
LifeIds == 0..(MaxId + 1)
LifePages == {1, 2}
LifeDetails ==
    {[ReleaseDate |-> [layout |-> ok, day |-> IF ok THEN 1 ELSE 0],
      Text |-> LifeText, Link |-> "l1"] : ok \in BOOLEAN}

\* the songs an update request can carry, with any ID and stamps
LifeSongs ==
    {[ID |-> k, Group |-> g, Title |-> "t1", ReleaseDate |-> 1, Text |-> LifeText,
      Link |-> "l1", CreatedAt |-> k * MaxTime, UpdatedAt |-> 0] :
        k \in {0, 1}, g \in Groups}

LifeFilters == {f \in Filters : f.Title = "" /\ f.ReleaseDate = 0 /\ f.Group # "g2"}

----------------------------------------------------------------------------
(* The lifecycle of the table, from the empty table *)

Init ==
    /\ songs = {}
    /\ idSeq = 0
    /\ now = 1
    /\ resp = NoResp
    /\ deleted = {}
    /\ issued = <<>>
    /\ listLog = [pageSize |-> 0, pages |-> {}]
    /\ req = NoReq
    /\ flight = NoFlight
    /\ edge = NoEdge

Next ==
    \/ \E g \in Groups, d \in LifeDetails :
          CreateSong(g, "t1", d) /\ UNCHANGED <<listLog, req, flight, edge>>
    \/ \E id \in LifeIds, song \in LifeSongs :
          UpdateSongById(id, song) /\ UNCHANGED <<listLog, req, flight, edge>>
    \/ \E id \in LifeIds : DeleteSongById(id) /\ UNCHANGED <<listLog, req, flight, edge>>
    \/ \E id \in LifeIds, page \in LifePages :
          GetSongText(id, page, 1) /\ UNCHANGED <<listLog, req, flight, edge>>
    \/ \E f \in LifeFilters, page \in LifePages :
          GetSongsWithFilter(f, page, MaxId) /\ UNCHANGED <<listLog, req, flight, edge>>

Spec == Init /\ [][Next]_vars


----------------------------------------------------------------------------
(* Tables drawn for the read-only operations: rows 1..k as k INSERTs at    *)
(* instant 1 leave them                                                    *)

DrawnRow(id, g, ti, d, x) ==
    [ID |-> id, Group |-> g, Title |-> ti, ReleaseDate |-> d, Text |-> x,
     Link |-> "l1", CreatedAt |-> 1, UpdatedAt |-> 1]

InitDrawn(table) ==
    /\ songs = table
    /\ idSeq = Cardinality(table)
    /\ now = 1
    /\ resp = NoResp
    /\ deleted = {}
    /\ issued = [i \in 1..Cardinality(table) |-> i]
    /\ listLog = [pageSize |-> 0, pages |-> {}]
    /\ req = NoReq
    /\ flight = NoFlight
    /\ edge = NoEdge

(* Verse pagination over one stored song with any text *)

InitVerses == \E x \in AllTexts : InitDrawn({DrawnRow(1, "g1", "t1", 1, x)})

\* one request per drawn song: a read leaves the table as it was drawn
NextVerses ==
    /\ resp = NoResp
    /\ \E id \in 1..2, page \in Pages, pageSize \in PageSizes :
          GetSongText(id, page, pageSize) /\ UNCHANGED <<listLog, req, flight, edge>>

SpecVerses == InitVerses /\ [][NextVerses]_vars

(* Filtered lists over a drawn table *)

ListRows == 2       \* rows of a table drawn for filtering
MaxListPage == 2    \* largest page and pageSize of a filtered list

ListPages == 0..MaxListPage

InitList ==
    \E k \in 0..ListRows :
        \E c \in [1..k -> Groups \X Titles \X Dates] :
            InitDrawn({DrawnRow(i, c[i][1], c[i][2], c[i][3], <<"a">>) : i \in 1..k})

\* one request per drawn table: a read leaves the table as it was drawn
NextList ==
    /\ resp = NoResp
    /\ \E f \in Filters, page \in ListPages, pageSize \in ListPages :
          GetSongsWithFilter(f, page, pageSize) /\ UNCHANGED <<listLog, req, flight, edge>>

SpecList == InitList /\ [][NextList]_vars

(* Pages of the unfiltered list over an unchanged drawn table.  listLog    *)
(* keeps, for the pageSize asked last, the latest rows of each page read.  *)

Logged(page, pageSize, rows) ==
    LET kept == IF listLog.pageSize = pageSize THEN listLog.pages ELSE {}
    IN [pageSize |-> pageSize,
        pages |-> {e \in kept : e.page # page} \cup {[page |-> page, rows |-> rows]}]

InitPages ==
    \E k \in 0..MaxRows :
        \E c \in [1..k -> Dates] :
            InitDrawn({DrawnRow(i, "g1", "t1", c[i], <<"a">>) : i \in 1..k})

NextPages ==
    \E page \in 1..MaxPage, pageSize \in 1..MaxPageSize :
        /\ GetSongsWithFilter(NoFilter, page, pageSize)
        /\ listLog' = Logged(page, pageSize, resp'.rows)
        /\ UNCHANGED <<req, flight, edge>>

SpecPages == InitPages /\ [][NextPages]_vars

(* One HTTP request, of any route and with any texts, over a drawn table *)

HttpRows == 1       \* rows of a table drawn for one HTTP request

\* texts of a path or query parameter: absent, not a number, zero, negative,
\* positive, signed, of two digits, a number followed by a letter
ParamTexts ==
    {<<>>, <<"x">>, <<"0">>, <<"-", "1">>, <<"1">>, <<"2">>, <<"+", "2">>,
     <<"1", "0">>, <<"1", "x">>}

IdTexts == {<<"x">>, <<"0">>, <<"1">>, <<"2">>, <<"1", "x">>}

\* date texts of requests and of the detail provider: one in the layout for
\* each day, one that is not, and the empty text
HttpDateTexts ==
    [layout : {TRUE}, day : Dates, empty : {FALSE}]
        \cup {[layout |-> FALSE, day |-> 0, empty |-> e] : e \in BOOLEAN}

HttpText == <<"a", NL, NL, "a", NL, NL, "a">>

BadBody == [json |-> FALSE]

UpdateBodies ==
    {BadBody} \cup
    [json : {TRUE}, group : {"g2"}, song : {"t2"}, release_date : HttpDateTexts,
     text : {<<"a">>}, link : {"l2"}]

AddBodies == {BadBody} \cup [json : {TRUE}, group : Groups, song : {"t1"}]

\* what the detail provider can answer: no answer, a status other than 200,
\* a body that is no JSON document of the expected types, or a document with
\* any of the three fields and possibly one more
Fetches ==
    {[kind |-> k] : k \in {"transport", "status", "malformed"}} \cup
    [kind : {"ok"}, has : SUBSET {"releaseDate", "text", "link"}, extra : BOOLEAN,
     releaseDate : HttpDateTexts \ {EmptyDateText}, text : {HttpText}, link : {"l1"}]

InitHttp ==
    \E k \in 0..HttpRows :
        InitDrawn({DrawnRow(i, "g1", "t1", 1, HttpText) : i \in 1..k})

NextHttp ==
    /\ resp = NoResp
    /\ UNCHANGED <<listLog, flight, edge>>
    /\ \/ \E g \in {"", "g1"}, d \in HttpDateTexts, p \in ParamTexts, ps \in ParamTexts :
             GetSongsHandler(g, "", d, p, ps)
       \/ \E id \in IdTexts, p \in ParamTexts, ps \in ParamTexts :
             GetSongTextHandler(id, p, ps)
       \/ \E id \in IdTexts, body \in UpdateBodies : UpdateSongByIdHandler(id, body)
       \/ \E id \in IdTexts : DeleteSongByIdHandler(id)
       \/ \E body \in AddBodies, fetched \in Fetches : AddSongHandler(body, fetched)

SpecHttp == InitHttp /\ [][NextHttp]_vars

(* One request of any verb and path through the router, over a drawn table *)

Verbs == {"GET", "POST", "PUT", "DELETE", "OPTIONS", "PATCH"}

Paths == {"/songs", "/songs/text/{id}", "/songs/{id}", "/docs/swagger/", "/other"}

RouterBodies ==
    {BadBody,
     [json |-> TRUE, group |-> "g2", song |-> "t2",
      release_date |-> [layout |-> TRUE, day |-> 1, empty |-> FALSE],
      text |-> <<"a">>, link |-> "l2"]}

RouterFetches ==
    {[kind |-> "status"],
     [kind |-> "ok", has |-> {"releaseDate", "text", "link"}, extra |-> FALSE,
      releaseDate |-> [layout |-> TRUE, day |-> 1, empty |-> FALSE],
      text |-> HttpText, link |-> "l1"]}

NextRouter ==
    /\ edge = NoEdge
    /\ UNCHANGED <<listLog, flight>>
    /\ \E verb \in Verbs, path \in Paths, idStr \in IdTexts, pageStr \in ParamTexts,
          body \in RouterBodies, fetched \in RouterFetches :
             ServeHTTP(verb, path, idStr, pageStr, body, fetched)

SpecRouter == InitHttp /\ [][NextRouter]_vars




(* Two requests handled concurrently.  net/http runs each request in a   *)
(* goroutine of its own; the goroutines share nothing but the database,   *)
(* which runs each statement as one step.  flight holds, for each of the  *)
(* two, where its handler stands.  The code gives no request a deadline:  *)
(* DeadlineExpires is the moment a deadline of the request would pass,    *)
(* and it is recorded only.                                               *)

Procs == {"p1", "p2"}

ConcRows == 1       \* rows of the table the concurrent requests start from

Idle ==
    [pc |-> "idle", op |-> "none", id |-> 0, song |-> ZeroSong, group |-> "",
     title |-> "", fetched |-> [kind |-> "none"], detail |-> ZeroDetail,
     expired |-> FALSE, err |-> Ok, status |-> 0, result |-> ZeroSong,
     rows |-> <<>>, verses |-> <<>>, at |-> 0]

\* the number of statements the database has run
Ran == Cardinality({p \in Procs : flight[p].at # 0})

\* the songs of the concurrent updates: they differ in every field
ConcSongs ==
    {[ZeroSong EXCEPT !.Group = "g1", !.Title = "t1", !.ReleaseDate = 0,
                      !.Text = <<"a">>, !.Link = "l1"],
     [ZeroSong EXCEPT !.Group = "g2", !.Title = "t2", !.ReleaseDate = 1,
                      !.Text = <<"a", "a">>, !.Link = "l2"]}

ConcFetches ==
    {[kind |-> "status"]} \cup
    [kind : {"ok"}, has : {{"releaseDate", "text", "link"}}, extra : {FALSE},
     releaseDate : {[layout |-> TRUE, day |-> 1, empty |-> FALSE]},
     text : {<<"a">>}, link : {"l1", "l2"}]

\* AddSongHandler up to http.Get: the detail fetch is in flight
ReceiveAdd(p, group, title) ==
    /\ flight[p].pc = "idle"
    /\ flight' = [flight EXCEPT ![p] = [Idle EXCEPT !.pc = "fetch", !.op = "create",
                                                    !.group = group, !.title = title]]
    /\ UNCHANGED <<songs, idSeq, now, resp, deleted, issued, listLog, req, edge>>

\* UpdateSongByIdHandler up to repo.Update: the statement is in flight
ReceiveUpdate(p, id, song) ==
    /\ flight[p].pc = "idle"
    /\ flight' = [flight EXCEPT ![p] = [Idle EXCEPT !.pc = "stmt", !.op = "update",
                                                    !.id = id, !.song = song]]
    /\ UNCHANGED <<songs, idSeq, now, resp, deleted, issued, listLog, req, edge>>

\* the handlers of DELETE /songs/{id}, GET /songs/text/{id} and GET /songs
\* up to the call of the repository: the statement is in flight
ReceiveRead(p, op, id) ==
    /\ flight[p].pc = "idle"
    /\ flight' = [flight EXCEPT ![p] = [Idle EXCEPT !.pc = "stmt", !.op = op,
                                                    !.id = id]]
    /\ UNCHANGED <<songs, idSeq, now, resp, deleted, issued, listLog, req, edge>>

(* faulty variant: the decoded detail is kept in a variable that the handlers *)
(* share, so a create waiting for its statement takes it over                *)
FetchReturnsSharedDetail(p, fetched) ==
    /\ flight[p].pc = "fetch"
    /\ LET got == FetchSongDetail(fetched)
       IN flight' = [q \in Procs |->
              IF q = p
              THEN IF got.err # Ok
                   THEN [flight[q] EXCEPT !.pc = "done", !.fetched = fetched,
                                          !.err = got.err,
                                          !.status = Status("create", got.err)]
                   ELSE [flight[q] EXCEPT !.pc = "stmt", !.fetched = fetched,
                                          !.detail = got.detail]
              ELSE IF got.err = Ok /\ flight[q].op = "create" /\ flight[q].pc = "stmt"
              THEN [flight[q] EXCEPT !.detail = got.detail]
              ELSE flight[q]]
    /\ UNCHANGED <<songs, idSeq, now, resp, deleted, issued, listLog, req, edge>>

\* http.Get returns: on a failure the handler answers 500, otherwise it goes
\* on to CreateSong with the decoded detail
FetchReturns(p, fetched) ==
    /\ flight[p].pc = "fetch"
    /\ LET got == FetchSongDetail(fetched)
       IN flight' = [flight EXCEPT ![p] =
              IF got.err # Ok
              THEN [@ EXCEPT !.pc = "done", !.fetched = fetched, !.err = got.err,
                             !.status = Status("create", got.err)]
              ELSE [@ EXCEPT !.pc = "stmt", !.fetched = fetched,
                             !.detail = got.detail]]
    /\ UNCHANGED <<songs, idSeq, now, resp, deleted, issued, listLog, req, edge>>

\* the database runs the statement of p and its handler answers
Execute(p) ==
    /\ flight[p].pc = "stmt"
    /\ CASE flight[p].op = "create" ->
               CreateSong(flight[p].group, flight[p].title, flight[p].detail)
         [] flight[p].op = "update" -> UpdateSongById(flight[p].id, flight[p].song)
         [] flight[p].op = "delete" -> DeleteSongById(flight[p].id)
         [] flight[p].op = "text" -> GetSongText(flight[p].id, 1, 1)
         [] flight[p].op = "list" -> GetSongsWithFilter(NoFilter, 1, MaxId)
    /\ flight' = [flight EXCEPT ![p] = [@ EXCEPT !.pc = "done", !.err = resp'.err,
                                                 !.status = resp'.status,
                                                 !.result = resp'.song,
                                                 !.rows = resp'.rows,
                                                 !.verses = resp'.verses,
                                                 !.at = Ran + 1]]
    /\ UNCHANGED <<listLog, req, edge>>

\* context.Background() in every Repo method, http.Get with the default client:
\* nothing waits for a deadline, so its passing changes nothing but the record
DeadlineExpires(p) ==
    /\ flight[p].pc \in {"fetch", "stmt"}
    /\ ~flight[p].expired
    /\ flight' = [flight EXCEPT ![p].expired = TRUE]
    /\ UNCHANGED <<songs, idSeq, now, resp, deleted, issued, listLog, req, edge>>

InitConc ==
    /\ \E k \in 0..ConcRows :
          songs = {DrawnRow(i, "g1", "t1", 1, <<"a">>) : i \in 1..k}
    /\ idSeq = Cardinality(songs)
    /\ now = 1
    /\ resp = NoResp
    /\ deleted = {}
    /\ issued = [i \in 1..Cardinality(songs) |-> i]
    /\ listLog = [pageSize |-> 0, pages |-> {}]
    /\ req = NoReq
    /\ flight = [p \in Procs |-> Idle]
    /\ edge = NoEdge

NextConc ==
    \E p \in Procs :
        \/ \E g \in Groups : ReceiveAdd(p, g, "t1")
        \/ \E id \in 1..2, song \in ConcSongs : ReceiveUpdate(p, id, song)
        \/ \E op \in {"delete", "text"} : ReceiveRead(p, op, 1)
        \/ ReceiveRead(p, "list", 0)
        \/ \E fetched \in ConcFetches : FetchReturns(p, fetched)
        \/ Execute(p)
        \/ DeadlineExpires(p)

SpecConc == InitConc /\ [][NextConc]_vars


----------------------------------------------------------------------------
(* Properties *)

Max(a, b) == IF a > b THEN a ELSE b

Exists(id) == \E s \in songs : s.ID = id
Stored(id) == CHOOSE s \in songs : s.ID = id

\* the verse count of the stored song and the start of the page asked
VerseCount(id) == Len(Split(Stored(id).Text))
StartOf(r) == (r.page - 1) * r.pageSize

\* C1: on an existing song GetSongText fails with PageOutOfBounds exactly when
\* start = (page-1)*pageSize exceeds the verse count N; for page >= 1 and
\* pageSize >= 1 with start = N it succeeds and returns no verse.
C1_OutOfBoundsIffStartPastEnd ==
    (resp.op = "text" /\ Exists(resp.id)) =>
        /\ resp.err = ErrPageOutOfBounds <=> StartOf(resp) > VerseCount(resp.id)
        /\ (resp.page >= 1 /\ resp.pageSize >= 1
            /\ StartOf(resp) = VerseCount(resp.id))
           => (resp.err = Ok /\ resp.verses = <<>>)

C1_Witness ==
    /\ resp.op = "text" /\ Exists(resp.id)
    /\ resp.page >= 2 /\ resp.pageSize >= 1
    /\ StartOf(resp) = VerseCount(resp.id)
    /\ resp.err = Ok /\ resp.verses = <<>>

\* C2: for page >= 1, pageSize >= 1 and start <= N, GetSongText returns the
\* elements of Split(text) at positions [start, min(start+pageSize, N)), in
\* order, empty elements included.
C2_PageIsSliceOfSplit ==
    (/\ resp.op = "text" /\ Exists(resp.id)
     /\ resp.page >= 1 /\ resp.pageSize >= 1
     /\ StartOf(resp) <= VerseCount(resp.id)) =>
        LET all == Split(Stored(resp.id).Text)
            start == StartOf(resp)
            end == Min(start + resp.pageSize, Len(all))
        IN /\ resp.err = Ok
           /\ Len(resp.verses) = end - start
           /\ \A i \in 1..(end - start) : resp.verses[i] = all[start + i]

C2_Witness ==
    /\ resp.op = "text" /\ Exists(resp.id) /\ resp.err = Ok
    /\ resp.page = 2 /\ resp.pageSize = 1
    /\ VerseCount(resp.id) = 3
    /\ resp.verses = <<<<>>>>

\* C3: page 1 with a pageSize of at least the verse count returns the whole
\* of Split(text).
C3_FirstPageHoldsAll ==
    (/\ resp.op = "text" /\ Exists(resp.id)
     /\ resp.page = 1 /\ resp.pageSize >= VerseCount(resp.id)) =>
        (resp.err = Ok /\ resp.verses = Split(Stored(resp.id).Text))

C3_Witness ==
    /\ resp.op = "text" /\ Exists(resp.id) /\ resp.err = Ok
    /\ resp.page = 1 /\ VerseCount(resp.id) = 3 /\ resp.pageSize = 3
    /\ Len(resp.verses) = 3


\* the rows a sequence holds
RowsOf(q) == {q[i] : i \in 1..Len(q)}

\* q is ordered by release_date, latest first
DescByDate(q) ==
    \A i, j \in 1..Len(q) : i < j => q[i].ReleaseDate >= q[j].ReleaseDate

\* the pages a list of n rows has at pageSize ps
PagesFor(n, ps) == {p \in 1..Max(n, 1) : (p - 1) * ps < n}

\* C4: for the empty filter and a fixed pageSize over an unchanged table, each
\* page holds at most pageSize rows ordered by release_date descending, the
\* pages are pairwise disjoint and together they hold every row of the table.
C4_PagesPartitionTable ==
    /\ \A e \in listLog.pages :
          Len(e.rows) <= listLog.pageSize /\ DescByDate(e.rows)
    /\ \A e1, e2 \in listLog.pages :
          e1.page # e2.page => RowsOf(e1.rows) \cap RowsOf(e2.rows) = {}
    /\ (PagesFor(Cardinality(songs), listLog.pageSize)
            \subseteq {e.page : e \in listLog.pages})
       => UNION {RowsOf(e.rows) : e \in listLog.pages} = songs

\* the songs that equal filter f on every field of f that is set
Selected(f) ==
    {s \in songs :
        /\ f.Group = "" \/ s.Group = f.Group
        /\ f.Title = "" \/ s.Title = f.Title
        /\ f.ReleaseDate = 0 \/ s.ReleaseDate = f.ReleaseDate}

\* C5: a list with page >= 1 and pageSize >= 1 returns rows of the table that
\* equal the filter on every field that is set, without repetition, and as
\* many of them as LIMIT pageSize OFFSET (page-1)*pageSize leaves of all the
\* songs selected: an unset field constrains nothing.
C5_ListSelectsByFilter ==
    (resp.op = "list" /\ resp.page >= 1 /\ resp.pageSize >= 1) =>
        LET sel == Selected(resp.filter)
            offset == (resp.page - 1) * resp.pageSize
        IN /\ resp.err = Ok
           /\ RowsOf(resp.rows) \subseteq sel
           /\ Cardinality(RowsOf(resp.rows)) = Len(resp.rows)
           /\ Len(resp.rows) = Min(resp.pageSize, Max(0, Cardinality(sel) - offset))

C5_Witness ==
    /\ resp.op = "list" /\ resp.err = Ok /\ resp.page = 1 /\ resp.pageSize = 2
    /\ resp.filter.Group = "" /\ resp.filter.Title = ""
    /\ resp.filter.ReleaseDate # 0
    /\ Cardinality(songs) = 2
    /\ Len(resp.rows) = 1


\* C6: no two songs of the table have the same id, every id in the table was
\* issued by an INSERT, and no id was issued twice, whatever was deleted since.
C6_IdsUniqueNeverReused ==
    /\ \A s1, s2 \in songs : s1.ID = s2.ID => s1 = s2
    /\ \A s \in songs : \E i \in 1..Len(issued) : issued[i] = s.ID
    /\ \A i, j \in 1..Len(issued) : i # j => issued[i] # issued[j]

C6_Witness ==
    /\ resp.op = "create" /\ resp.err = Ok
    /\ deleted # {}
    /\ Len(issued) >= 2
    /\ \A d \in deleted : resp.song.ID # d

\* C7: every song of the table has createdAt <= updatedAt.
C7_CreatedNotAfterUpdated ==
    \A s \in songs : s.CreatedAt <= s.UpdatedAt

C7_Witness ==
    /\ resp.op = "update" /\ resp.err = Ok
    /\ \E s \in songs : s.ID = resp.id /\ s.CreatedAt < s.UpdatedAt

\* C8: a successful update leaves the set of ids and the song's createdAt as
\* they were, whatever the input carries, sets updatedAt to a value not below
\* the one before, and returns the stored row.
C8_UpdateKeepsIdAndCreatedAt ==
    [][(resp'.op = "update" /\ resp'.err = Ok) =>
          /\ {s.ID : s \in songs'} = {s.ID : s \in songs}
          /\ \E old \in songs, new \in songs' :
                /\ old.ID = resp'.id /\ new.ID = resp'.id
                /\ new.CreatedAt = old.CreatedAt
                /\ new.UpdatedAt >= old.UpdatedAt
                /\ resp'.song = new]_vars

C8_Witness ==
    /\ resp.op = "update" /\ resp.err = Ok
    /\ resp.song \in songs
    /\ resp.song.ID = resp.id
    /\ resp.song.UpdatedAt > resp.song.CreatedAt

\* C9: once a delete of an id has succeeded, the table holds no song with that
\* id, GetSongText, update and delete with that id answer ErrSongNotFound, and
\* no list returns a song with that id.
C9_DeletedStaysAbsent ==
    [][/\ \A d \in deleted' : \A s \in songs' : s.ID # d
       /\ \A d \in deleted :
             /\ (resp'.op \in {"text", "update", "delete"} /\ resp'.id = d)
                => (resp'.err = ErrSongNotFound /\ resp'.status = StatusNotFound)
             /\ resp'.op = "list"
                => \A i \in 1..Len(resp'.rows) : resp'.rows[i].ID # d]_vars

C9_Witness ==
    /\ resp.op = "text" /\ resp.id \in deleted
    /\ resp.err = ErrSongNotFound
    /\ songs # {}

\* C10: a delete answers ok (204) exactly when the table held a song with
\* that id and ErrSongNotFound (404) otherwise; a delete of an id already
\* deleted answers ErrSongNotFound.
C10_DeleteOkIffExists ==
    [][resp'.op = "delete" =>
          /\ resp'.err \in {Ok, ErrSongNotFound}
          /\ resp'.err = Ok <=> (\E s \in songs : s.ID = resp'.id)
          /\ resp'.err = Ok => resp'.status = StatusNoContent
          /\ resp'.err = ErrSongNotFound => resp'.status = StatusNotFound
          /\ resp'.id \in deleted => resp'.err = ErrSongNotFound]_vars

C10_Witness ==
    /\ resp.op = "delete" /\ resp.id \in deleted
    /\ resp.err = ErrSongNotFound /\ resp.status = StatusNotFound

\* C11: an update of an id that no stored song has is answered with
\* ErrSongNotFound and status 404; it creates no song, draws no id and leaves
\* the table as it was.
C11_UpdateMissingChangesNothing ==
    [][(resp'.op = "update" /\ ~Exists(resp'.id))
        => /\ resp'.err = ErrSongNotFound
           /\ resp'.status = StatusNotFound
           /\ resp'.song = ZeroSong
           /\ songs' = songs
           /\ idSeq' = idSeq]_vars

C11_Witness ==
    /\ resp.op = "update"
    /\ resp.err = ErrSongNotFound
    /\ resp.status = StatusNotFound
    /\ songs # {}
    /\ ~Exists(resp.id)

\* C12: a create request whose body was read fetches the details, then
\* parses the release date, then inserts.  A failed fetch (no answer, a status
\* other than 200, a body that does not decode) ends the request with the fetch
\* error, a release date outside the layout ends it with the parse error, and
\* either way the table and the id sequence are as before; only a request that
\* passed both inserts.
C12_CreatePipelineStopsAtFirstFailure ==
    [][(req'.method = "create" /\ req'.body.json)
        => LET f == req'.fetched
               fetchFails == f.kind # "ok"
               dateFails == f.kind = "ok" /\ ("releaseDate" \notin f.has
                                              \/ ~f.releaseDate.layout)
           IN /\ fetchFails => resp'.err = ErrDetailFetch
              /\ dateFails => resp'.err = ErrDateParse
              /\ (fetchFails \/ dateFails)
                    => /\ resp'.status = StatusInternalServerError
                       /\ songs' = songs
                       /\ idSeq' = idSeq
              /\ ~(fetchFails \/ dateFails)
                    => /\ resp'.err = Ok
                       /\ songs' = songs \cup {resp'.song}
                       /\ resp'.song \notin songs]_vars

C12_Witness ==
    /\ req.method = "create" /\ req.body.json
    /\ req.fetched.kind = "ok"
    /\ req.fetched.has = {"releaseDate", "text", "link"}
    /\ ~req.fetched.releaseDate.layout
    /\ resp.err = ErrDateParse
    /\ resp.status = StatusInternalServerError
    /\ songs # {}

\* C13: after a successful create the song read back by the returned id has
\* the group and title of the request, the date the detail's releaseDate
\* parses to, the detail's text and link, and an id, a createdAt and an
\* updatedAt that are not zero.
C13_CreatedSongReadsBack ==
    (req.method = "create" /\ resp.err = Ok)
        => LET got == GetById(resp.song.ID)
               detail == DecodeSongDetail(req.fetched)
           IN /\ got.err = Ok
              /\ got.song = resp.song
              /\ got.song.Group = req.body.group
              /\ got.song.Title = req.body.song
              /\ ParseDate(detail.ReleaseDate).err = Ok
              /\ got.song.ReleaseDate = ParseDate(detail.ReleaseDate).date
              /\ got.song.Text = detail.Text
              /\ got.song.Link = detail.Link
              /\ got.song.ID # 0
              /\ got.song.CreatedAt # 0
              /\ got.song.UpdatedAt # 0

C13_Witness ==
    /\ req.method = "create" /\ resp.err = Ok
    /\ resp.status = StatusCreated
    /\ req.body.group = "g2"
    /\ req.fetched.has = {"releaseDate", "text", "link"}
    /\ Cardinality(songs) = 2
    /\ resp.song \in songs

\* the request carries a text its handler cannot read: an id that is no
\* number, a body that does not decode, a release date outside the layout
ClientParseError ==
    \/ req.method \in {"text", "update", "delete"} /\ Atoi(req.id).err
    \/ req.method \in {"update", "create"} /\ ~req.body.json
    \/ req.method = "update" /\ req.body.json /\ ~req.body.release_date.layout
    \/ req.method = "list" /\ ~req.release_date.empty /\ ~req.release_date.layout

\* C14: the status of a response follows from the kind of its outcome alone:
\* success is 200 for list, get-verses and update, 201 for create, 204 for
\* delete; a text the handler cannot read and ErrPageOutOfBounds are 400;
\* ErrSongNotFound is 404; a failed detail fetch, a date of the detail that
\* does not parse and any other store error are 500.
C14_StatusByOutcomeKind ==
    (req # NoReq /\ resp.err # Panic)
        => /\ resp.op = req.method
           /\ ClientParseError <=> resp.err \in {ErrBadID, ErrBadBody, ErrBadDate}
           /\ resp.err = Ok =>
                 resp.status = (CASE req.method = "create" -> StatusCreated
                                  [] req.method = "delete" -> StatusNoContent
                                  [] OTHER -> StatusOK)
           /\ (ClientParseError \/ resp.err = ErrPageOutOfBounds)
                 => resp.status = StatusBadRequest
           /\ resp.err = ErrSongNotFound => resp.status = StatusNotFound
           /\ resp.err \notin {Ok, ErrBadID, ErrBadBody, ErrBadDate,
                              ErrPageOutOfBounds, ErrSongNotFound}
                 => /\ resp.err \in {ErrDetailFetch, ErrDateParse, ErrDatabase}
                    /\ resp.status = StatusInternalServerError
           /\ (req.method = "create" /\ req.body.json /\ resp.err # Ok)
                 => resp.status = StatusInternalServerError

C14_Witness ==
    /\ req.method = "create" /\ req.body.json
    /\ req.fetched.kind = "status"
    /\ resp.err = ErrDetailFetch
    /\ resp.status = StatusInternalServerError

\* the handler of the request went on to call the service
ServiceCalled == req.method \in {"list", "text"} /\ ~ClientParseError

\* C15: every list and get-verses call the HTTP edge makes carries a page and
\* a pageSize of at least 1, whatever the page and page_size texts are.
C15_CallsCarryPositivePaging ==
    ServiceCalled => (resp.page >= 1 /\ resp.pageSize >= 1)

\* the parameter texts that are no decimal integer: absent, a letter, a
\* number followed by a letter
NoInteger == {<<>>, <<"x">>, <<"1", "x">>}

\* C16: in the list and get-verses handlers a page text that is absent or no
\* decimal integer is read as 1 and such a page_size text as 10, each
\* whatever the other is, while an integer text is passed on with its value;
\* such a text never makes the answer a 400.
C16_DefaultsReplaceUnreadableParams ==
    ServiceCalled
        => /\ req.page \in NoInteger => resp.page = 1
           /\ req.page_size \in NoInteger => resp.pageSize = 10
           /\ req.page \notin NoInteger => resp.page = Atoi(req.page).val
           /\ req.page_size \notin NoInteger => resp.pageSize = Atoi(req.page_size).val
           /\ req.page \in NoInteger => resp.status # StatusBadRequest
           /\ resp.status = StatusBadRequest
                 => /\ resp.err = ErrPageOutOfBounds
                    /\ req.page \notin NoInteger
                    /\ resp.page > 1

C16_Witness ==
    /\ req.method = "text" /\ ServiceCalled
    /\ req.page = <<"x">> /\ req.page_size = <<"2">>
    /\ resp.page = 1 /\ resp.pageSize = 2
    /\ resp.status = StatusOK
    /\ Len(resp.verses) = 2

\* C20: a create whose detail document (status 200) lacks releaseDate, text
\* or link fails and leaves the table as it was, while a complete document
\* with a further unknown field creates the song.
C20_MissingDetailFieldFailsCreate ==
    [][(req'.method = "create" /\ req'.body.json /\ req'.fetched.kind = "ok")
        => /\ req'.fetched.has # {"releaseDate", "text", "link"}
                 => /\ resp'.err # Ok
                    /\ resp'.status = StatusInternalServerError
                    /\ songs' = songs
           /\ (/\ req'.fetched.has = {"releaseDate", "text", "link"}
               /\ req'.fetched.extra
               /\ req'.fetched.releaseDate.layout)
                 => /\ resp'.err = Ok
                    /\ resp'.status = StatusCreated]_vars

\* the statement of the request p handles has run
StatementRan(p) == flight[p].pc = "done" /\ flight[p].at # 0

\* C17: two concurrent creates of the same group and title whose statements
\* ran, in either order, have both succeeded with different ids, and the
\* table holds both rows, each as its own request was answered.
C17_SameSongCreatedTwice ==
    \A p \in Procs : \A q \in Procs \ {p} :
        (/\ StatementRan(p) /\ StatementRan(q)
         /\ flight[p].op = "create" /\ flight[q].op = "create"
         /\ flight[p].group = flight[q].group /\ flight[p].title = flight[q].title)
            => /\ flight[p].status = StatusCreated /\ flight[q].status = StatusCreated
               /\ flight[p].result.ID # flight[q].result.ID
               /\ {flight[p].result, flight[q].result} \subseteq songs
               /\ flight[p].result.Link = flight[p].detail.Link
               /\ flight[p].result.Group = flight[p].group
               /\ flight[p].result.Title = flight[p].title
               /\ Cardinality({s \in songs : /\ s.Group = flight[p].group
                                             /\ s.Title = flight[p].title}) >= 2

C17_Witness ==
    /\ StatementRan("p1") /\ StatementRan("p2")
    /\ flight["p1"].op = "create" /\ flight["p2"].op = "create"
    /\ flight["p1"].group = "g1" /\ flight["p2"].group = "g1"
    /\ flight["p1"].detail.Link # flight["p2"].detail.Link
    /\ flight["p2"].at = 1 /\ flight["p1"].at = 2
    /\ Cardinality(songs) = 2

\* C18: two concurrent updates of the same stored id have both succeeded, and
\* the stored song has the group, title, release date, text and link of the
\* request whose UPDATE ran last, all five of them.
C18_LastUpdateWins ==
    \A p \in Procs : \A q \in Procs \ {p} :
        (/\ StatementRan(p) /\ StatementRan(q)
         /\ flight[p].op = "update" /\ flight[q].op = "update"
         /\ flight[p].id = flight[q].id
         /\ Exists(flight[p].id)
         /\ flight[p].at > flight[q].at)
            => /\ flight[p].status = StatusOK /\ flight[q].status = StatusOK
               /\ Stored(flight[p].id) = flight[p].result
               /\ Stored(flight[p].id).Group = flight[p].song.Group
               /\ Stored(flight[p].id).Title = flight[p].song.Title
               /\ Stored(flight[p].id).ReleaseDate = flight[p].song.ReleaseDate
               /\ Stored(flight[p].id).Text = flight[p].song.Text
               /\ Stored(flight[p].id).Link = flight[p].song.Link

C18_Witness ==
    /\ StatementRan("p1") /\ StatementRan("p2")
    /\ flight["p1"].op = "update" /\ flight["p2"].op = "update"
    /\ flight["p1"].id = 1 /\ flight["p2"].id = 1
    /\ flight["p1"].song # flight["p2"].song
    /\ flight["p2"].at = 1 /\ flight["p1"].at = 2
    /\ Exists(1) /\ Stored(1).Link = "l2" /\ flight["p1"].song.Link = "l2"

\* C19: a request whose deadline passed while its detail fetch or its
\* statement was in flight ends with status 500 and returns no song.
C19_ExpiredRequestEndsWith500 ==
    \A p \in Procs :
        (flight[p].pc = "done" /\ flight[p].expired)
            => /\ flight[p].status = StatusInternalServerError
               /\ flight[p].result = ZeroSong

\* C21: every OPTIONS request is answered 204 with the three
\* Access-Control-Allow-* headers and reaches no song handler; a request of
\* another verb that has a route reaches the handler of its route, and its
\* answer carries the same three headers.
C21_CorsOnEveryRequest ==
    edge # NoEdge
        => /\ edge.verb = "OPTIONS"
                 => /\ resp.status = StatusNoContent
                    /\ edge.headers = CorsHeaders
                    /\ resp.op = "options"
                    /\ req = NoReq
           /\ (edge.verb # "OPTIONS" /\ Match(edge.verb, edge.path) \notin {"404", "405"})
                 => /\ edge.headers = CorsHeaders
                    /\ resp.op = Match(edge.verb, edge.path)

\* the first text of the arriving request that its handler cannot read
Unreadable(r) ==
    IF r.method \in {"text", "update", "delete"} /\ r.id \in NoInteger THEN ErrBadID
    ELSE IF r.method \in {"update", "create"} /\ ~r.body.json THEN ErrBadBody
    ELSE IF r.method = "update" /\ ~r.body.release_date.layout THEN ErrBadDate
    ELSE IF r.method = "list" /\ ~r.release_date.empty /\ ~r.release_date.layout
    THEN ErrBadDate
    ELSE Ok

\* C22: a request with an id that is no decimal integer, a body that does not
\* decode or a release_date outside DD.MM.YYYY is answered 400 with the
\* message of that text; the answer carries nothing a service call returns,
\* and the table, the id sequence and the clock are as before.
C22_UnreadableTextAnswered400 ==
    [][Unreadable(req') # Ok
        => /\ resp' = [NoResp EXCEPT !.op = req'.method, !.err = Unreadable(req'),
                                     !.status = StatusBadRequest]
           /\ songs' = songs
           /\ idSeq' = idSeq
           /\ now' = now
           /\ deleted' = deleted
           /\ issued' = issued]_vars

C22_Witness ==
    /\ req.method = "update" /\ req.id = <<"1">> /\ req.body.json
    /\ ~req.body.release_date.layout /\ ~req.body.release_date.empty
    /\ Exists(1)
    /\ resp.err = ErrBadDate
    /\ resp.status = StatusBadRequest

\* C23: a list that no song matches succeeds with the empty sequence, and
\* GET /songs answers every successful list, this one too, with status 200
\* and the JSON array of the songs returned.
C23_EmptyListIsEmptyArray ==
    (req.method = "list" /\ ServiceCalled /\ resp.err # ErrDatabase)
        => /\ resp.err = Ok
           /\ resp.status = StatusOK
           /\ ListBody(resp.rows) = [kind |-> "array", value |-> resp.rows]

\* C24: get-verses for an id that no stored song has fails with
\* ErrSongNotFound (404) for every page and pageSize, the zero, the negative
\* and the large ones included, never with ErrPageOutOfBounds, and returns no
\* verse.
C24_MissingSongBeforePageCheck ==
    (resp.op = "text" /\ ~Exists(resp.id))
        => /\ resp.err = ErrSongNotFound
           /\ resp.status = StatusNotFound
           /\ resp.verses = <<>>

C24_Witness ==
    /\ resp.op = "text" /\ ~Exists(resp.id)
    /\ resp.page = MaxPage /\ resp.pageSize = MaxPageSize
    /\ songs # {}
    /\ resp.err = ErrSongNotFound

\* C25: for every page and pageSize, zero and negative ones included,
\* get-verses on a stored song slices its N verses with bounds
\* 0 <= start <= end <= N only, and ends with verses or ErrPageOutOfBounds,
\* never with a runtime failure.
C25_SliceWithinBounds ==
    (resp.op = "text" /\ Exists(resp.id))
        => LET n == VerseCount(resp.id)
               start == StartOf(resp)
               end == ClampEnd(start + resp.pageSize, n)
           IN /\ resp.err \in {Ok, ErrPageOutOfBounds}
              /\ resp.err = Ok => (0 <= start /\ start <= end /\ end <= n)

\* C26: every stored song has at least one verse, one empty verse when its
\* text is empty, so get-verses with page 1 and any pageSize >= 1 on a stored
\* song succeeds and returns at least one verse.
C26_FirstPageNeverEmpty ==
    /\ \A s \in songs : Len(Split(s.Text)) >= 1
    /\ \A s \in songs : s.Text = <<>> => Split(s.Text) = <<(<<>>)>>
    /\ (resp.op = "text" /\ Exists(resp.id) /\ resp.page = 1 /\ resp.pageSize >= 1)
          => /\ resp.err = Ok
             /\ resp.status = StatusOK
             /\ Len(resp.verses) >= 1
             /\ resp.verses[1] = Split(Stored(resp.id).Text)[1]

C26_Witness ==
    /\ resp.op = "text" /\ Exists(resp.id)
    /\ Stored(resp.id).Text = <<>>
    /\ resp.page = 1 /\ resp.pageSize = MaxPageSize
    /\ resp.err = Ok
    /\ resp.verses = <<(<<>>)>>

\* the number of pages of n verses
PageCount(n, pageSize) == (n + pageSize - 1) \div pageSize

\* the verses of pages 1..k of song id, one after the other
RECURSIVE PagesJoined(_, _, _)
PagesJoined(id, pageSize, k) ==
    IF k = 0 THEN <<>>
    ELSE PagesJoined(id, pageSize, k - 1) \o GetSongTextResult(id, k, pageSize).verses

\* C27: for every stored song of N verses and every pageSize >= 1, the pages
\* 1..ceil(N/pageSize) all succeed, each but the last has pageSize verses, the
\* last has at least one, and joined in order they are exactly the split of
\* the text; the answer of a request for one of these pages is that page.
C27_PagesJoinToSplit ==
    /\ \A s \in songs : \A pageSize \in 1..MaxPageSize :
          LET n == Len(Split(s.Text))
              last == PageCount(n, pageSize)
          IN /\ PagesJoined(s.ID, pageSize, last) = Split(s.Text)
             /\ \A p \in 1..last :
                   LET r == GetSongTextResult(s.ID, p, pageSize)
                   IN /\ r.err = Ok
                      /\ p < last => Len(r.verses) = pageSize
                      /\ p = last => Len(r.verses) = n - (last - 1) * pageSize
    /\ (resp.op = "text" /\ Exists(resp.id) /\ resp.pageSize >= 1 /\ resp.page >= 1
        /\ resp.page <= PageCount(VerseCount(resp.id), resp.pageSize))
          => /\ resp.err = Ok
             /\ resp.verses = GetSongTextResult(resp.id, resp.page, resp.pageSize).verses

C27_Witness ==
    /\ resp.op = "text" /\ Exists(resp.id)
    /\ VerseCount(resp.id) = 3
    /\ resp.page = 2 /\ resp.pageSize = 2
    /\ resp.err = Ok
    /\ resp.verses = <<Split(Stored(resp.id).Text)[3]>>

\* C28: a list and a get-verses request, whether it succeeds or fails, leaves
\* the table as it was: the same songs with the same fields, updatedAt
\* included; no id is drawn and the clock is not read.
C28_ReadsLeaveStoreUnchanged ==
    [][resp'.op \in {"list", "text"}
        => /\ songs' = songs
           /\ idSeq' = idSeq
           /\ now' = now
           /\ deleted' = deleted
           /\ issued' = issued]_vars

C28_Witness ==
    /\ resp.op = "text"
    /\ resp.err = ErrSongNotFound
    /\ \E s \in songs : s.UpdatedAt > s.CreatedAt

\* the songs of a table that have another id
Others(table, id) == {s \in table : s.ID # id}

\* C29: an update and a delete of an id leave every song of another id in
\* the table with all its fields, createdAt and updatedAt included, and bring
\* in no song of another id; a create that succeeds adds exactly one song, a
\* create that fails adds none, and either way every song stored before is
\* stored unchanged after.
C29_WritesTouchOneSong ==
    [][/\ resp'.op \in {"update", "delete"}
          => Others(songs', resp'.id) = Others(songs, resp'.id)
       /\ (resp'.op = "update" /\ resp'.err = Ok)
          => Cardinality(songs') = Cardinality(songs)
       /\ (resp'.op = "delete" /\ resp'.err = Ok)
          => songs' = Others(songs, resp'.id)
       /\ (resp'.op = "create" /\ resp'.err = Ok)
          => /\ songs \subseteq songs'
             /\ songs' \ songs = {resp'.song}
             /\ Cardinality(songs') = Cardinality(songs) + 1
       /\ (resp'.op = "create" /\ resp'.err # Ok) => songs' = songs]_vars

C29_Witness ==
    /\ resp.op = "delete" /\ resp.err = Ok /\ resp.id = 2
    /\ Exists(1)
    /\ Stored(1).UpdatedAt > Stored(1).CreatedAt

\* the step in which the statement of the request of p runs
StatementStep(p) == flight[p].pc = "stmt" /\ flight'[p].pc = "done"

\* the request of p handled alone from the table as it is now, with the texts
\* and the detail that p itself received
HandledAlone(p) ==
    CASE flight[p].op = "create" ->
            CreateSong(flight[p].group, flight[p].title,
                       DecodeSongDetail(flight[p].fetched))
      [] flight[p].op = "update" -> UpdateSongById(flight[p].id, flight[p].song)
      [] flight[p].op = "delete" -> DeleteSongById(flight[p].id)
      [] flight[p].op = "text" -> GetSongText(flight[p].id, 1, 1)
      [] flight[p].op = "list" -> GetSongsWithFilter(NoFilter, 1, MaxId)

\* C30: of two requests handled concurrently, each runs at most one
\* statement; the step of that statement changes the table and answers the
\* request exactly as the request handled alone on the table of that moment
\* does, whatever the other request is and wherever it stands; no other step
\* changes the table, a request answered without a statement is answered 500
\* from its own detail fetch, and an answer given is not changed afterwards.
\* So the final table and the answers are those of the requests handled one
\* after the other in the order of their statements.
C30_StepsOfSequentialHandling ==
    [][/\ \A p \in Procs :
             StatementStep(p)
                => /\ HandledAlone(p)
                   /\ flight'[p].err = resp'.err
                   /\ flight'[p].status = resp'.status
                   /\ flight'[p].result = resp'.song
                   /\ flight'[p].rows = resp'.rows
                   /\ flight'[p].verses = resp'.verses
                   /\ flight[p].at = 0 /\ flight'[p].at = Ran + 1
                   /\ \A q \in Procs \ {p} : flight'[q] = flight[q]
       /\ (\A p \in Procs : ~StatementStep(p))
             => UNCHANGED <<songs, idSeq, now, resp, deleted, issued>>
       /\ \A p \in Procs :
             /\ flight[p].pc = "done" => flight'[p] = flight[p]
             /\ (flight[p].pc = "fetch" /\ flight'[p].pc = "done")
                   => /\ flight'[p].fetched.kind # "ok"
                      /\ flight'[p].status = StatusInternalServerError
                      /\ flight'[p].at = 0
             /\ flight[p].pc # "idle"
                   => /\ flight'[p].op = flight[p].op
                      /\ flight'[p].id = flight[p].id
                      /\ flight'[p].song = flight[p].song
                      /\ flight'[p].group = flight[p].group
                      /\ flight'[p].title = flight[p].title
             /\ flight[p].pc = "stmt" => flight'[p].fetched = flight[p].fetched]_vars

C30_Witness ==
    /\ StatementRan("p1") /\ StatementRan("p2")
    /\ flight["p1"].op = "update" /\ flight["p1"].id = 1
    /\ flight["p2"].op = "delete" /\ flight["p2"].id = 1
    /\ flight["p2"].at = 1 /\ flight["p1"].at = 2
    /\ flight["p2"].status = StatusNoContent
    /\ flight["p1"].status = StatusNotFound
    /\ songs = {}

============================================================================
